---------------------------- MODULE Spec2Model ----------------------------
(***************************************************************************)
(* A model of xtsttopng (src/xtsttopng.c): the conversion of XTS pixel     *)
(* traces to PNG images.  The model covers the colour skip list            *)
(* (random_level, alloc_color, find_color, free_image), the colour         *)
(* assignment (float_to_uint, assign_hsv, assign_rgb), the frame decoder   *)
(* (read_image), the renderer (dump_png), newname and the loop of main.    *)
(***************************************************************************)
EXTENDS Integers, Sequences, FiniteSets, TLC

(***************************************************************************)
(* Program constants.                                                      *)
(***************************************************************************)
MAX_LEVEL == 32

NULL == 0

(***************************************************************************)
(* Single-precision arithmetic.  A float is a record [m, e] that stands    *)
(* for the value m * 2^e, with 0 <= m <= 2^MantissaBits.  Only the         *)
(* non-negative values occur in assign_rgb and assign_hsv.  Every          *)
(* operation is the exact operation followed by rounding to nearest, ties  *)
(* to even, as the C float operators are on a build that evaluates float   *)
(* expressions in single precision (FLT_EVAL_METHOD 0).                    *)
(***************************************************************************)
MantissaBits == 24

F(m, e) == [m |-> m, e |-> e]

FZero == F(0, 0)
FOne == F(1, 0)
FHalf == F(1, -1)

\* The float nearest to M * 2^E.  M is bound to its value once.
RoundF(M, E) ==
    CHOOSE x \in
       {IF m < 2^MantissaBits
        THEN F(m, E)
        ELSE LET s == CHOOSE k \in 1..8 : m \div 2^k < 2^MantissaBits
                                          /\ m \div 2^(k-1) >= 2^MantissaBits
                 q == m \div 2^s
                 r == m % 2^s
                 half == 2^(s-1)
                 up == IF r > half \/ (r = half /\ q % 2 = 1) THEN 1 ELSE 0
             IN  F(q + up, E + s) : m \in {M}} : TRUE

\* m * 2^d, or 2^30 if that is less: 2^30 is above every mantissa.
ShiftLeft(m, d) ==
    IF m = 0 THEN 0
    ELSE IF d > 29 THEN 2^30
    ELSE IF m >= 2^(30 - d) THEN 2^30
    ELSE m * 2^d

\* a and b brought to the smaller of their exponents, for a comparison.
FAlign(a, b) ==
    LET e == IF a.e < b.e THEN a.e ELSE b.e
    IN  [am |-> ShiftLeft(a.m, a.e - e), bm |-> ShiftLeft(b.m, b.e - e), e |-> e]

FEq(a, b) == LET x == FAlign(a, b) IN x.am = x.bm

FGe(a, b) == LET x == FAlign(a, b) IN x.am >= x.bm

\* The largest k <= d with m * 2^k < 2^29, for m > 0.
RECURSIVE Headroom(_, _, _)
Headroom(m, d, k) ==
    IF k < d /\ 2 * m < 2^29 THEN Headroom(2 * m, d, k + 1) ELSE k

(***************************************************************************)
(* a - b, for a >= b.  The difference is exact where it fits; where b is   *)
(* far below a, the bits of b under the last place kept are replaced by a  *)
(* sticky bit, which rounds the same way.                                  *)
(***************************************************************************)
FSub(a, b) ==
    IF b.m = 0 THEN RoundF(a.m, a.e)
    ELSE IF a.e <= b.e THEN RoundF(a.m - b.m * 2^(b.e - a.e), a.e)
    ELSE LET d == a.e - b.e
             k == Headroom(a.m, d, 0)
             am == a.m * 2^k
             bq == IF d - k > 24 THEN 0 ELSE b.m \div 2^(d - k)
             br == IF d - k > 24 THEN b.m ELSE b.m % 2^(d - k)
         IN  IF br = 0
             THEN RoundF(am - bq, a.e - k)
             ELSE RoundF(2 * (am - bq - 1) + 1, a.e - k - 1)

FMul(a, b) == RoundF(a.m * b.m, a.e + b.e)

\* Long division: q and r are the quotient and the remainder of
\* am * 2^k by bm; one more bit is taken until q has one bit more than the
\* mantissa.
RECURSIVE QuotientShift(_, _, _, _)
QuotientShift(q, r, bm, k) ==
    IF q >= 2^MantissaBits
    THEN [q |-> q, r |-> r, k |-> k]
    ELSE CHOOSE d \in
            {QuotientShift(q1, r1, bm, k1) :
                q1 \in {2 * q + (IF 2 * r >= bm THEN 1 ELSE 0)},
                r1 \in {IF 2 * r >= bm THEN 2 * r - bm ELSE 2 * r},
                k1 \in {k + 1}} : TRUE

\* a / b: the quotient is taken with one bit more than the mantissa and a
\* sticky bit for the remainder, which is what rounding to nearest needs.
FDiv(a, b) ==
    IF a.m = 0
    THEN FZero
    ELSE LET d == QuotientShift(a.m \div b.m, a.m % b.m, b.m, 0)
             sticky == IF d.r = 0 THEN 0 ELSE 1
         IN  RoundF(2 * d.q + sticky, a.e - b.e - d.k - 1)

\* (float) i for an int 0 <= i < 2^MantissaBits.
IntToFloat(i) == F(i, 0)

\* floor(x) as an integer.
Floor(x) ==
    IF x.e >= 0 THEN x.m * 2^x.e
    ELSE IF -x.e > 24 THEN 0
    ELSE x.m \div 2^(-x.e)

\* float_to_uint with channels of 4 bits: floor (x * 15.0).
float_to_uint_coarse(x) ==
    (IF x.e >= 0 THEN 15 * x.m * 2^x.e
     ELSE IF -x.e >= 12 THEN (15 * (x.m \div 2^12)
                              + ((15 * (x.m % 2^12)) \div 2^12)) \div 2^(-x.e - 12)
     ELSE (15 * x.m) \div 2^(-x.e)) % 65536

(***************************************************************************)
(* float_to_uint: floor (x * 255.0), the product taken in double           *)
(* precision, where it is exact (24 + 8 bits), and converted to uint16_t.  *)
(* The product is formed from the two halves of the mantissa to stay       *)
(* within 32-bit integers.                                                 *)
(***************************************************************************)
float_to_uint(x) ==
    LET c == 2^12
        hi == x.m \div c
        lo == x.m % c
        \* floor(255 * m / 2^k), for k >= 12
        scaled(k) == (255 * hi + ((255 * lo) \div c)) \div 2^(k - 12)
        fl == IF x.e >= 0 THEN 255 * x.m * 2^x.e
              ELSE IF -x.e >= 12 THEN scaled(-x.e)
              ELSE (255 * x.m) \div 2^(-x.e)
    IN  fl % 65536


(***************************************************************************)
(* struct xts_color.  A colour entry lives in the heap at an address       *)
(* 1, 2, ...; next is the trailing array next[0 .. level-1], held as a     *)
(* sequence (next[i] of the code is next[i+1] here).  hsv records the      *)
(* arguments of the assign_hsv call that set r, g, b: it is empty until    *)
(* then.                                                                   *)
(***************************************************************************)
xts_color(level) ==
    [pixel |-> 0, r |-> 0, g |-> 0, b |-> 0, level |-> level,
     next |-> [k \in 1..level |-> NULL], hsv |-> <<>>]

\* random_level: bits is the value of random () | random ().
RECURSIVE random_level_loop(_, _)
random_level_loop(bits, level) ==
    LET l == level + 1
    IN  IF l < MAX_LEVEL
        THEN IF bits % 2 = 1 THEN l ELSE random_level_loop(bits \div 2, l)
        ELSE l

random_level(bits) == random_level_loop(bits, 0)

\* The address calloc returns: the lowest one that is not allocated.
FreshAddress(heap) ==
    CHOOSE a \in 1..(Cardinality(DOMAIN heap) + 1) : a \notin DOMAIN heap

\* alloc_color: bits is the random word, ok is whether calloc succeeds.
alloc_color(heap, bits, ok) ==
    IF ~ok
    THEN [c |-> NULL, heap |-> heap]
    ELSE LET a == FreshAddress(heap)
         IN  [c |-> a,
              heap |-> [x \in DOMAIN heap \cup {a} |->
                           IF x = a THEN xts_color(random_level(bits))
                           ELSE heap[x]]]

RECURSIVE hsv_wrap(_)
hsv_wrap(h6) ==
    IF FGe(h6, IntToFloat(6)) THEN hsv_wrap(FSub(h6, IntToFloat(6))) ELSE h6

\* Stands for the value of an uint16_t that was never assigned.
Uninitialized == -1

\* Op of the value of x; the value is computed once.
Bind(x, Op(_)) == CHOOSE r \in {Op(y) : y \in {x}} : TRUE

\* assign_hsv: the entry color with r, g, b set from h, s, v.
assign_hsv(color, h, s, v) ==
    LET set(r, g, b) == [color EXCEPT !.r = r, !.g = g, !.b = b,
                                      !.hsv = <<[h |-> h, s |-> s, v |-> v]>>]
    IN  IF FEq(v, FZero) THEN set(0, 0, 0)
        ELSE IF FEq(s, FZero)
        THEN Bind(float_to_uint(s), LAMBDA x : set(x, x, x))
        ELSE Bind(hsv_wrap(FMul(h, IntToFloat(6))), LAMBDA h6 :
             Bind(Floor(h6), LAMBDA i :
             Bind(FSub(h6, IntToFloat(i)), LAMBDA f :
             Bind(float_to_uint(FMul(v, FSub(FOne, s))), LAMBDA p :
             Bind(float_to_uint(FMul(v, FSub(FOne, FMul(s, f)))), LAMBDA q :
             Bind(float_to_uint(Bind(FSub(FOne, f), LAMBDA g :
                                     FMul(v, FSub(FOne, FMul(s, g))))), LAMBDA t :
             Bind(float_to_uint(v), LAMBDA u :
                CASE i = 0 -> set(u, t, p)
                  [] i = 1 -> set(q, u, p)
                  [] i = 2 -> set(p, u, t)
                  [] i = 3 -> set(p, q, u)
                  [] i = 4 -> set(t, p, u)
                  [] i = 5 -> set(u, p, q)
                  [] OTHER -> set(Uninitialized, Uninitialized, Uninitialized))))))))

(***************************************************************************)
(* struct xts_image.  colors[i] of the code is colors[i+1] here; pixels    *)
(* is the part of the pixel array that has been written.                   *)
(***************************************************************************)
xts_image(width, height, depth) ==
    [width |-> width, height |-> height, depth |-> depth,
     colors |-> [k \in 1..MAX_LEVEL |-> NULL], num_colors |-> 0,
     pixels |-> <<>>]

(***************************************************************************)
(* A pointer "struct xts_color **next" of find_color points to the array   *)
(* image->colors, written as the owner NULL, or to the array s->next of    *)
(* an entry s, written as the owner s.                                     *)
(***************************************************************************)
\* Whether next[i] lies outside the array the owner holds.
OutOfBounds(heap, owner, i) ==
    owner # NULL /\ i >= heap[owner].level

\* The value of next[i].
Load(image, heap, owner, i) ==
    IF owner = NULL THEN image.colors[i + 1]
    ELSE IF OutOfBounds(heap, owner, i) THEN NULL
    ELSE heap[owner].next[i + 1]

\* find_color's search with the order test turned round: the walk along a
\* level stops at a smaller pixel, not at a greater one.
RECURSIVE find_color_search_reversed(_, _, _, _, _, _, _)
find_color_search_reversed(image, heap, pixel, i, next, update, oob) ==
    IF i < 0
    THEN [s |-> NULL, update |-> update, oob |-> oob]
    ELSE LET s == Load(image, heap, next, i)
             o == oob \/ OutOfBounds(heap, next, i)
         IN  IF s # NULL /\ heap[s].pixel = pixel
             THEN [s |-> s, update |-> update, oob |-> o]
             ELSE IF s # NULL /\ ~(heap[s].pixel < pixel)
             THEN find_color_search_reversed(image, heap, pixel, i, s, update, o)
             ELSE find_color_search_reversed(image, heap, pixel, i - 1, next,
                                             [update EXCEPT ![i + 1] = next], o)

\* find_color's search with the order test before the equality test and
\* made non-strict: an entry with the pixel searched for ends the walk
\* along its level and is never returned.
RECURSIVE find_color_search_blind(_, _, _, _, _, _, _)
find_color_search_blind(image, heap, pixel, i, next, update, oob) ==
    IF i < 0
    THEN [s |-> NULL, update |-> update, oob |-> oob]
    ELSE LET s == Load(image, heap, next, i)
             o == oob \/ OutOfBounds(heap, next, i)
         IN  IF s # NULL /\ ~(heap[s].pixel >= pixel)
             THEN find_color_search_blind(image, heap, pixel, i, s, update, o)
             ELSE find_color_search_blind(image, heap, pixel, i - 1, next,
                                          [update EXCEPT ![i + 1] = next], o)

\* The search of find_color, at level i with the pointer next.  update[i]
\* of the code is update[i+1] here and holds the owner of the array.
RECURSIVE find_color_search(_, _, _, _, _, _, _)
find_color_search(image, heap, pixel, i, next, update, oob) ==
    IF i < 0
    THEN [s |-> NULL, update |-> update, oob |-> oob]
    ELSE LET s == Load(image, heap, next, i)
             o == oob \/ OutOfBounds(heap, next, i)
         IN  IF s # NULL /\ heap[s].pixel = pixel
             THEN [s |-> s, update |-> update, oob |-> o]
             ELSE IF s # NULL /\ ~(heap[s].pixel > pixel)
             THEN find_color_search(image, heap, pixel, i, s, update, o)
             ELSE find_color_search(image, heap, pixel, i - 1, next,
                                    [update EXCEPT ![i + 1] = next], o)

\* The linking loop with the bound 1 in place of s->level: the new entry s
\* is linked into the chain of level 0 only.
RECURSIVE find_color_link_ground(_, _, _, _, _)
find_color_link_ground(image, heap, s, update, i) ==
    IF i >= 1
    THEN [image |-> image, heap |-> heap]
    ELSE LET owner == update[i + 1]
             n == Load(image, heap, owner, i)
             heap1 == [heap EXCEPT ![s].next[i + 1] = n]
         IN  IF owner = NULL
             THEN find_color_link_ground([image EXCEPT !.colors[i + 1] = s],
                                         heap1, s, update, i + 1)
             ELSE find_color_link_ground(image,
                                         [heap1 EXCEPT ![owner].next[i + 1] = s],
                                         s, update, i + 1)

\* The loop that links the new entry s into the chains 0 .. level-1.
RECURSIVE find_color_link(_, _, _, _, _)
find_color_link(image, heap, s, update, i) ==
    IF i >= heap[s].level
    THEN [image |-> image, heap |-> heap]
    ELSE LET owner == update[i + 1]
             n == Load(image, heap, owner, i)
             heap1 == [heap EXCEPT ![s].next[i + 1] = n]
         IN  IF owner = NULL
             THEN find_color_link([image EXCEPT !.colors[i + 1] = s],
                                  heap1, s, update, i + 1)
             ELSE find_color_link(image,
                                  [heap1 EXCEPT ![owner].next[i + 1] = s],
                                  s, update, i + 1)

\* The search of find_color from its start: the top level, no pointer yet
\* and an update array of NULLs.
find_color_start(image, heap, pixel) ==
    find_color_search(image, heap, pixel, MAX_LEVEL - 1, NULL,
                      [k \in 1..MAX_LEVEL |-> NULL], FALSE)

(***************************************************************************)
(* The result of a find_color call holds the entry returned (ret), the     *)
(* image and the heap after the call, whether the search found the pixel   *)
(* (hit), whether it read past the end of an entry's next array (oob) and  *)
(* whether the call stored through the NULL that a failed alloc_color      *)
(* returns (fault).                                                        *)
(***************************************************************************)
\* return s with ++image->num_colors moved ahead of the search, so that a
\* lookup counts as well.
find_color_found_counting(image, heap, found) ==
    [ret |-> found.s,
     image |-> [image EXCEPT !.num_colors = image.num_colors + 1],
     heap |-> heap, hit |-> TRUE, oob |-> found.oob, fault |-> FALSE]

\* find_color when the search has found the entry found.s: return s.
find_color_found(image, heap, found) ==
    [ret |-> found.s, image |-> image, heap |-> heap, hit |-> TRUE,
     oob |-> found.oob, fault |-> FALSE]

\* find_color when the search has found nothing: the entry a.c that
\* alloc_color returned, with the heap a.heap, is filled in and linked.
find_color_insert(image, heap, pixel, found, a) ==
    IF a.c = NULL
    THEN [ret |-> NULL, image |-> image, heap |-> heap, hit |-> FALSE,
          oob |-> found.oob, fault |-> TRUE]
    ELSE CHOOSE r \in
            {[ret |-> a.c, image |-> linked.image, heap |-> linked.heap,
              hit |-> FALSE, oob |-> found.oob, fault |-> FALSE] :
               linked \in {find_color_link(
                              [image EXCEPT !.num_colors = image.num_colors + 1],
                              [a.heap EXCEPT ![a.c].pixel = pixel],
                              a.c, found.update, 0)}} : TRUE

\* find_color after its search.
find_color_after(image, heap, pixel, found, bits, ok) ==
    IF found.s # NULL
    THEN find_color_found(image, heap, found)
    ELSE CHOOSE r \in {find_color_insert(image, heap, pixel, found, a) :
                         a \in {alloc_color(heap, bits, ok)}} : TRUE

\* find_color: bits is the random word alloc_color draws and ok whether
\* its calloc succeeds, should the pixel have no entry.
find_color(image, heap, pixel, bits, ok) ==
    CHOOSE r \in {find_color_after(image, heap, pixel, found, bits, ok) :
                    found \in {find_color_start(image, heap, pixel)}} : TRUE

\* The results find_color can have for the random words of the set words
\* and the calloc outcomes of the set oks: neither matters when the pixel
\* has an entry.
find_color_outcomes(image, heap, pixel, words, oks) ==
    UNION {IF found.s # NULL
           THEN {find_color_found(image, heap, found)}
           ELSE {find_color_after(image, heap, pixel, found, bits, ok) :
                    bits \in words, ok \in oks} :
           found \in {find_color_start(image, heap, pixel)}}

\* The level-i chain: the addresses reached from image->colors[i] by next[i].
RECURSIVE ChainFrom(_, _, _, _)
ChainFrom(heap, a, i, fuel) ==
    IF a = NULL \/ fuel = 0 \/ a \notin DOMAIN heap THEN <<>>
    ELSE <<a>> \o ChainFrom(heap, IF i < heap[a].level
                                  THEN heap[a].next[i + 1] ELSE NULL,
                            i, fuel - 1)

Chain(image, heap, i) ==
    ChainFrom(heap, image.colors[i + 1], i, Cardinality(DOMAIN heap) + 1)

\* assign_rgb's walk with the policy of the gray first two entries: index 0
\* white, index 1 black, the hues spread over the entries from index 2 on.
RECURSIVE assign_rgb_walk_gray(_, _, _, _)
assign_rgb_walk_gray(image, heap, c, i) ==
    IF c = NULL
    THEN heap
    ELSE LET h == IF i < 2 THEN FZero
                  ELSE FDiv(IntToFloat(i - 2), IntToFloat(image.num_colors - 2))
             s == IF i < 2 THEN FZero ELSE FOne
             v == IF i < 2 THEN IntToFloat(1 - i) ELSE FHalf
         IN  assign_rgb_walk_gray(image,
                             [heap EXCEPT ![c] = assign_hsv(heap[c], h, s, v)],
                             heap[c].next[1], i + 1)

\* The body of assign_rgb's loop for the entry color, which has index i.
assign_rgb_entry(image, color, i) ==
    LET s == FOne
        v == FHalf
    IN  CHOOSE c \in
           {assign_hsv(color, h, s, v) :
               h \in {FDiv(IntToFloat(i), IntToFloat(image.num_colors))}} : TRUE

\* assign_rgb: the walk of the level-0 chain from entry c with index i.
RECURSIVE assign_rgb_walk(_, _, _, _)
assign_rgb_walk(image, heap, c, i) ==
    IF c = NULL
    THEN heap
    ELSE CHOOSE h \in
            {assign_rgb_walk(image, [heap EXCEPT ![c] = e], n, i1) :
                e \in {assign_rgb_entry(image, heap[c], i)},
                n \in {heap[c].next[1]},
                i1 \in {i + 1}} : TRUE

\* assign_rgb going through the entries in the order of their allocation
\* instead of along the level-0 chain.
assign_rgb_by_address(image, heap) ==
    [a \in DOMAIN heap |->
        assign_hsv(heap[a],
                   FDiv(IntToFloat(a - 1), IntToFloat(image.num_colors)),
                   FOne, FHalf)]

\* assign_rgb that returns without walking the chain.
assign_rgb_none(image, heap) == heap

assign_rgb(image, heap) == assign_rgb_walk(image, heap, image.colors[1], 0)

\* free_image: every entry of the level-0 chain is freed, then the image.
RECURSIVE free_image_walk(_, _)
free_image_walk(heap, c) ==
    IF c = NULL
    THEN heap
    ELSE free_image_walk([x \in DOMAIN heap \ {c} |-> heap[x]], heap[c].next[1])

free_image(image, heap) == free_image_walk(heap, image.colors[1])


(***************************************************************************)
(* Bounds of the model.                                                    *)
(***************************************************************************)
\* The random words random () | random () range over 0 .. MaxRandom:
\* 0 gives the level MAX_LEVEL, 1 the level 1, 2 the level 2.
MaxRandom == 2
\* The pixel values of the skip-list specification are 1 .. MaxPixel.
MaxPixel == 3

RandomBits == 0..MaxRandom
TablePixels == 1..MaxPixel

(***************************************************************************)
(* The state.                                                              *)
(*   pc       where the program is: in main's loop or inside read_image    *)
(*   argv     the input file names, argv[1 .. argc-1]                      *)
(*   f, i     main's file index and frame index                            *)
(*   nlines   how many lines have been read from the input files           *)
(*   image    the struct xts_image being decoded or rendered               *)
(*   heap     the colour entries that are allocated, by address            *)
(*   count    read_image's count of pixels still missing                   *)
(*   leaked   the number of allocated entries nothing points to any more   *)
(*   outputs  the output files opened so far, in order                     *)
(*   rgb      the RGB buffer dump_png has filled                           *)
(*   visited  the file indexes main has tried to open, in order            *)
(*   clobber  what the build makes of sscanf's %lx store into a uint32_t   *)
(*   calls    the pixel values find_color was called with on this image    *)
(*   last     the last find_color call: its pixel, result and whether the  *)
(*            pixel had an entry before the call                           *)
(*   event    the last step's call into the C library and its outcome,     *)
(*            with the line it read if it read one                         *)
(***************************************************************************)
VARIABLES pc, argv, f, i, nlines, image, heap, count, leaked, outputs, rgb,
          visited, clobber, calls, last, event

vars == <<pc, argv, f, i, nlines, image, heap, count, leaked, outputs, rgb,
          visited, clobber, calls, last, event>>

Line(kind, a, b, c) == [kind |-> kind, a |-> a, b |-> b, c |-> c]
NoLine == Line("none", 0, 0, 0)
Event(what, line) == [what |-> what, line |-> line]

NoImage == xts_image(0, 0, 0)
NoCall == [pixel |-> 0, ret |-> NULL, hit |-> FALSE]

\* The pixel values that have an entry in the heap.
Pixels(h) == {h[a].pixel : a \in DOMAIN h}

(***************************************************************************)
(* The skip list on its own: any sequence of find_color calls on one       *)
(* image, assign_rgb once, and find_color calls after it.                  *)
(***************************************************************************)
TableInit ==
    /\ pc = "table"
    /\ argv = <<>>
    /\ f = 0
    /\ i = 0
    /\ nlines = 0
    /\ image = xts_image(1, 1, 8)
    /\ heap = <<>>
    /\ count = 0
    /\ leaked = 0
    /\ outputs = <<>>
    /\ rgb = <<>>
    /\ visited = <<>>
    /\ clobber = "none"
    /\ calls = {}
    /\ last = NoCall
    /\ event = Event("start", NoLine)

TableFindColor ==
    /\ pc \in {"table", "colored"}
    /\ \E pixel \in TablePixels :
       \E c \in find_color_outcomes(image, heap, pixel, RandomBits, {TRUE}) :
          /\ image' = c.image
          /\ heap' = c.heap
          /\ calls' = calls \cup {pixel}
          /\ last' = [pixel |-> pixel, ret |-> c.ret, hit |-> c.hit]
    /\ UNCHANGED <<pc, argv, f, i, nlines, count, leaked, outputs, rgb,
                   visited, clobber, event>>

TableAssignRgb ==
    /\ pc = "table"
    /\ heap' = assign_rgb(image, heap)
    /\ pc' = "colored"
    /\ UNCHANGED <<argv, f, i, nlines, image, count, leaked, outputs, rgb,
                   visited, clobber, calls, last, event>>

TableNext == TableFindColor \/ TableAssignRgb

TableSpec == TableInit /\ [][TableNext]_vars


(***************************************************************************)
(* assign_hsv on its own: one entry, and calls of assign_hsv on it with    *)
(* hues, saturations and values drawn from a grid.  The entry records the  *)
(* arguments of the last call in hsv.                                      *)
(***************************************************************************)
\* The hues are the multiples of 1/8 up to HsvSteps / 8.
HsvSteps == 8

Hues == {F(k, -3) : k \in 0..HsvSteps}

\* Saturations and values: 0, 1/4, 1/2, 3/4, 1.
Fractions == {F(k, -2) : k \in 0..4}

HsvInit ==
    /\ pc = "hsv"
    /\ argv = <<>>
    /\ f = 0
    /\ i = 0
    /\ nlines = 0
    /\ image = NoImage
    /\ heap = <<xts_color(1)>>
    /\ count = 0
    /\ leaked = 0
    /\ outputs = <<>>
    /\ rgb = <<>>
    /\ visited = <<>>
    /\ clobber = "none"
    /\ calls = {}
    /\ last = NoCall
    /\ event = Event("start", NoLine)

HsvAssign ==
    /\ pc = "hsv"
    /\ \E h \in Hues, s \in Fractions, v \in Fractions :
          heap' = <<assign_hsv(heap[1], h, s, v)>>
    /\ UNCHANGED <<pc, argv, f, i, nlines, image, count, leaked, outputs, rgb,
                   visited, clobber, calls, last, event>>

HsvNext == HsvAssign

HsvSpec == HsvInit /\ [][HsvNext]_vars


(***************************************************************************)
(* The colours on their own: the loop of assign_rgb over a level-0 chain   *)
(* of image.num_colors entries, one entry a step.  heap holds the entries  *)
(* the loop has passed, in the order of the walk, which is the ascending   *)
(* order of their pixels; i is the index of the loop.                      *)
(***************************************************************************)
\* The tables hold 1 .. MaxColors entries.
MaxColors == 511

ColorInit ==
    /\ pc = "colors"
    /\ argv = <<>>
    /\ f = 0
    /\ i = 0
    /\ nlines = 0
    /\ image \in {[xts_image(1, 1, 8) EXCEPT !.num_colors = n] : n \in 1..MaxColors}
    /\ heap = <<>>
    /\ count = 0
    /\ leaked = 0
    /\ outputs = <<>>
    /\ rgb = <<>>
    /\ visited = <<>>
    /\ clobber = "none"
    /\ calls = {}
    /\ last = NoCall
    /\ event = Event("start", NoLine)

ColorAssign ==
    /\ pc = "colors"
    /\ i < image.num_colors
    /\ heap' = Append(heap, assign_rgb_entry(image,
                                             [xts_color(1) EXCEPT !.pixel = i + 1], i))
    /\ i' = i + 1
    /\ UNCHANGED <<pc, argv, f, nlines, image, count, leaked, outputs, rgb,
                   visited, clobber, calls, last, event>>

ColorNext == ColorAssign

ColorSpec == ColorInit /\ [][ColorNext]_vars


(***************************************************************************)
(* The input.  An input file is a sequence of text lines; the model draws  *)
(* each line when the program reads it.  A line is                         *)
(*   "hdr"  width height depth in decimal, the header of a frame           *)
(*   "run"  run,pixel in hexadecimal                                       *)
(*   "pix"  pixel in hexadecimal                                           *)
(*   "bad"  a text that starts with neither a digit nor a hex digit        *)
(* The pixel values written in the files are 0xa and 0xb: their text is    *)
(* no decimal number, so fscanf's %d stops at it.  Runs and header         *)
(* fields are single digits.                                               *)
(***************************************************************************)
\* Input files on the command line: argc is NumFiles + 1.
NumFiles == 2
\* The input files hold at most MaxLines lines together.
MaxLines == 4

\* The widths of the frames; they are 1 high and 8 deep.
FrameWidths == {1, 2}
\* The runs written in the files.
Runs == {0, 1, 2, 3}
\* The pixel values written in the files: 0xa and 0xb.
FramePixels == {10, 11}
\* The random words drawn while a frame is decoded: levels MAX_LEVEL and 1.
FrameRandomBits == {0, 1}

Lines ==
    {Line("hdr", w, 1, 8) : w \in FrameWidths}
    \cup {Line("run", r, p, 0) : r \in Runs, p \in FramePixels}
    \cup {Line("pix", p, 0, 0) : p \in FramePixels}
    \cup {Line("bad", 0, 0, 0)}

EOF == Line("eof", 0, 0, 0)

\* What fgets or fscanf can meet next when n lines were read so far.
NextLines(n) == IF n < MaxLines THEN Lines \cup {EOF} ELSE {EOF}

\* The builds differ in what sscanf's %lx does to the neighbours of the
\* 4-byte pixel it is given: it stores 8 bytes.  "none": the upper half
\* lands in unused memory; "run": it lands in run.
Clobbers == {"none", "run"}

\* The upper half of the unsigned long that %lx converts.
UpperHalf(p) == (p \div 65536) \div 65536

(***************************************************************************)
(* fscanf (file, "%d %d %d\n", &width, &height, &depth): n is the number   *)
(* of conversions, EOF being -1.  In a "run" line %d converts the run and  *)
(* stops at the comma.                                                     *)
(***************************************************************************)
scan_header(line) ==
    CASE line.kind = "eof" -> [n |-> -1, width |-> 0, height |-> 0, depth |-> 0]
      [] line.kind = "hdr" -> [n |-> 3, width |-> line.a, height |-> line.b,
                               depth |-> line.c]
      [] line.kind = "run" /\ line.a >= 0
                           -> [n |-> 1, width |-> line.a, height |-> 0, depth |-> 0]
      [] OTHER -> [n |-> 0, width |-> 0, height |-> 0, depth |-> 0]

(***************************************************************************)
(* The two sscanf calls of read_image on a line fgets has read: ok is      *)
(* whether one of them converted what it asks for, run and pixel are the   *)
(* variables after them.  A header line read here converts as the hex      *)
(* number width followed by no comma: a bare pixel.                        *)
(***************************************************************************)
scan_line(line, build) ==
    CASE line.kind = "run" ->
            [ok |-> TRUE,
             run |-> IF build = "run" THEN UpperHalf(line.b) ELSE line.a,
             pixel |-> line.b]
      [] line.kind = "pix" -> [ok |-> TRUE, run |-> 1, pixel |-> line.a]
      [] line.kind = "hdr" -> [ok |-> TRUE, run |-> 1, pixel |-> line.a]
      [] OTHER -> [ok |-> FALSE, run |-> 0, pixel |-> 0]

\* k copies of pixel.
Repeat(pixel, k) == [x \in 1..k |-> pixel]

Min(a, b) == IF a < b THEN a ELSE b

\* The inner loop of read_image, had it dropped what is left of a run once
\* count is 0.
fill_run_truncated(run, left) ==
    LET n == IF run > 0 THEN Min(run, left) ELSE 0
    IN  [n |-> n, run |-> 0, count |-> left - n]

\* The inner loop of read_image, while (run > 0 && count > 0), entered
\* with count = left: n is the number of pixels it stores, run and count
\* are the variables after it.
fill_run(run, left) ==
    LET n == IF run > 0 THEN Min(run, left) ELSE 0
    IN  [n |-> n, run |-> run - n, count |-> left - n]

\* stdio_write_func, had it returned on a write error.
stdio_write_func_returning(written) ==
    [exit |-> FALSE, data |-> IF written THEN "png" ELSE "partial"]

\* stdio_write_func over the whole image: written is whether every fwrite
\* writes all it is given; exit is whether exit (1) is called, data what
\* the output file holds.
stdio_write_func(written) ==
    [exit |-> ~written, data |-> IF written THEN "png" ELSE "partial"]

(***************************************************************************)
(* The file names.  A name is a sequence of characters.                    *)
(***************************************************************************)
NameList == << <<"d", "/", "a", ".", "b", ".", "x">>, <<"c">> >>

ArgvName(k) == NameList[((k - 1) % Len(NameList)) + 1]

\* The index of the last c in s, 0 when there is none.
LastIndexOf(s, c) ==
    IF \E k \in 1..Len(s) : s[k] = c
    THEN CHOOSE k \in 1..Len(s) : s[k] = c /\ \A j \in (k + 1)..Len(s) : s[j] # c
    ELSE 0

\* basename, for a path that does not end in a slash: where the last
\* component starts.
basename(path) == LastIndexOf(path, "/") + 1

DigitChars == <<"0", "1", "2", "3", "4", "5", "6", "7", "8", "9">>

\* The decimal text of n, as %d prints it.
RECURSIVE Digits(_)
Digits(n) ==
    IF n < 10 THEN <<DigitChars[n + 1]>>
    ELSE Digits(n \div 10) \o <<DigitChars[(n % 10) + 1]>>

(***************************************************************************)
(* newname: orig is the string orig_name points to.  The result holds the  *)
(* new name and the string orig_name points to afterwards: newname cuts    *)
(* it at the last dot of its last component.                               *)
(***************************************************************************)
newname(orig, k, extension) ==
    LET b == basename(orig)
        base == SubSeq(orig, b, Len(orig))
        dot == IF LastIndexOf(base, ".") = 0 THEN Len(base) + 1
               ELSE LastIndexOf(base, ".")
        cut == SubSeq(base, 1, dot - 1)
    IN  [new |-> cut \o <<"-">> \o Digits(k) \o <<".">> \o extension,
         orig |-> SubSeq(orig, 1, b - 1 + dot - 1)]


(***************************************************************************)
(* The loop of dump_png and of dump_ppm over the pixels: find_color for    *)
(* each pixel, and its colour read.  bits and ok are what alloc_color      *)
(* would meet if a pixel had no entry.  acc.colors are the colours read,   *)
(* hits counts the calls that found an entry, unset the colours read that  *)
(* assign_hsv never set; last is the last find_color call, call being the  *)
(* last one before the loop.                                               *)
(***************************************************************************)
RECURSIVE dump_loop(_, _, _, _, _, _)
dump_loop(img, h, k, bits, ok, acc) ==
    IF k > Len(img.pixels) \/ acc.fault
    THEN [image |-> img, heap |-> h, colors |-> acc.colors, fault |-> acc.fault,
          hits |-> acc.hits, unset |-> acc.unset, last |-> acc.last]
    ELSE CHOOSE r \in
            {dump_loop(c.image, c.heap, k + 1, bits, ok,
                IF c.fault
                THEN [acc EXCEPT !.fault = TRUE,
                                 !.last = [pixel |-> img.pixels[k], ret |-> c.ret,
                                           hit |-> c.hit]]
                ELSE [colors |-> Append(acc.colors,
                                        <<c.heap[c.ret].r, c.heap[c.ret].g,
                                          c.heap[c.ret].b>>),
                      fault |-> FALSE,
                      hits |-> acc.hits + (IF c.hit THEN 1 ELSE 0),
                      unset |-> acc.unset
                                + (IF c.heap[c.ret].hsv = <<>> THEN 1 ELSE 0),
                      last |-> [pixel |-> img.pixels[k], ret |-> c.ret,
                                hit |-> c.hit]]) :
               c \in {find_color(img, h, img.pixels[k], bits, ok)}} : TRUE

dump_start(call) ==
    [colors |-> <<>>, fault |-> FALSE, hits |-> 0, unset |-> 0, last |-> call]

\* dump_png up to the end of its loop: rgb holds (b << 16) | (g << 8) | r
\* for each pixel.
dump_png(img, h, bits, ok, call) ==
    CHOOSE r \in
       {[image |-> d.image, heap |-> d.heap, fault |-> d.fault, hits |-> d.hits,
         unset |-> d.unset, last |-> d.last,
         rgb |-> [k \in 1..Len(d.colors) |->
                     d.colors[k][3] * 65536 + d.colors[k][2] * 256 + d.colors[k][1]]] :
          d \in {dump_loop(img, h, 1, bits, ok, dump_start(call))}} : TRUE

\* The results dump_png can have for the random words of the set words and
\* the calloc outcomes of the set oks: neither matters when every
\* find_color call of the loop finds its entry.
dump_png_outcomes(img, h, call, words, oks) ==
    UNION {IF d.hits = Len(img.pixels)
           THEN {d}
           ELSE {dump_png(img, h, bits, ok, call) : bits \in words, ok \in oks} :
           d \in {dump_png(img, h, CHOOSE bits \in words : TRUE, TRUE, call)}}

\* dump_ppm: text holds the line " r g b" of each pixel, after the three
\* lines of the header.
dump_ppm(img, h, bits, ok, call) ==
    CHOOSE r \in
       {[image |-> d.image, heap |-> d.heap, fault |-> d.fault, hits |-> d.hits,
         unset |-> d.unset, last |-> d.last,
         text |-> << <<"P3">>, <<img.width, img.height>>, <<255>> >> \o d.colors] :
          d \in {dump_loop(img, h, 1, bits, ok, dump_start(call))}} : TRUE

(***************************************************************************)
(* The program: main, with read_image unfolded into its steps.             *)
(*   pc = "open"    main is at the top of its for loop                     *)
(*        "read"    main calls read_image: the header is read next         *)
(*        "body"    read_image is at the top of its while loop             *)
(*        "assign"  read_image has left the while loop                     *)
(*        "name"    read_image has returned an image to main               *)
(*        "dump"    the output file is open, dump_png is called next       *)
(*        "free"    free_image is called next                              *)
(*        "done"    main has returned                                      *)
(*        "exit"    exit (1) was called                                    *)
(*        "fault"   the program has stored through or read a NULL pointer  *)
(***************************************************************************)
Init ==
    /\ pc = "open"
    /\ argv = [k \in 1..NumFiles |-> ArgvName(k)]
    /\ f = 1
    /\ i = 0
    /\ nlines = 0
    /\ image = NoImage
    /\ heap = <<>>
    /\ count = 0
    /\ leaked = 0
    /\ outputs = <<>>
    /\ rgb = <<>>
    /\ visited = <<>>
    /\ clobber \in Clobbers
    /\ calls = {}
    /\ last = NoCall
    /\ event = Event("start", NoLine)

\* main ending where it cannot open an input file.
Continue_stop ==
    /\ pc' = "exit"
    /\ f' = f

\* main: continue, after perror for an input file that cannot be opened.
Continue ==
    /\ pc' = "open"
    /\ f' = f + 1

\* main: fopen of the next input file.
OpenInput ==
    /\ pc = "open"
    /\ f <= NumFiles
    /\ visited' = Append(visited, f)
    /\ \E opened \in BOOLEAN :
          IF opened
          THEN /\ pc' = "read"
               /\ i' = 0
               /\ f' = f
               /\ event' = Event("fopen", NoLine)
          ELSE /\ Continue
               /\ event' = Event("fopen failed", NoLine)
               /\ UNCHANGED i
    /\ UNCHANGED <<argv, nlines, image, heap, count, leaked, outputs, rgb, clobber,
                   calls, last>>

\* main: the for loop ends and main returns.
Return ==
    /\ pc = "open"
    /\ f > NumFiles
    /\ pc' = "done"
    /\ event' = Event("return", NoLine)
    /\ UNCHANGED <<argv, f, i, nlines, image, heap, count, leaked, outputs,
                   rgb, visited, clobber, calls, last>>

\* read_image returns NULL and main calls it again on the same file.
ReturnNull_retry ==
    /\ pc' = "read"
    /\ f' = f

\* read_image calls exit (1) where it returns NULL.
ReturnNull_abort ==
    /\ pc' = "exit"
    /\ f' = f

\* read_image returns NULL to main, whose while loop ends: the next file.
ReturnNull ==
    /\ pc' = "open"
    /\ f' = f + 1

\* free (image) on a failure path of read_image: the entries stay allocated.
FreeImageOnly ==
    /\ image' = NoImage
    /\ heap' = <<>>
    /\ leaked' = leaked + Cardinality(DOMAIN heap)
    /\ count' = 0
    /\ calls' = {}
    /\ last' = NoCall

\* read_image up to its while loop: the header and the image buffer.
ReadHeader ==
    /\ pc = "read"
    /\ \E line \in NextLines(nlines), allocated \in BOOLEAN :
          LET hdr == scan_header(line)
          IN  IF hdr.n # 3
              THEN /\ ReturnNull
                   /\ event' = Event("no header", line)
                   /\ UNCHANGED <<image, count, nlines, calls, last>>
              ELSE IF ~allocated
              THEN /\ ReturnNull
                   /\ event' = Event("malloc failed", line)
                   /\ nlines' = nlines + 1
                   /\ UNCHANGED <<image, count, calls, last>>
              ELSE /\ image' = xts_image(hdr.width, hdr.height, hdr.depth)
                   /\ count' = hdr.width * hdr.height
                   /\ nlines' = nlines + 1
                   /\ event' = Event("header", line)
                   /\ calls' = {}
                   /\ last' = NoCall
                   /\ pc' = IF hdr.width * hdr.height > 0 THEN "body" ELSE "assign"
                   /\ f' = f
    /\ UNCHANGED <<argv, i, heap, leaked, outputs, rgb, visited, clobber>>

\* read_image: one turn of its while loop.
ReadLine ==
    /\ pc = "body"
    /\ \E line \in NextLines(nlines) :
          LET sc == scan_line(line, clobber)
          IN  IF line = EOF \/ ~sc.ok
              THEN /\ FreeImageOnly
                   /\ ReturnNull
                   /\ event' = Event("run bad", line)
                   /\ nlines' = IF line = EOF THEN nlines ELSE nlines + 1
              ELSE \E c \in find_color_outcomes(image, heap, sc.pixel,
                                                   FrameRandomBits, BOOLEAN) :
                   LET w == fill_run(sc.run, count)
                       n == w.n
                       run == w.run
                       call == [pixel |-> sc.pixel, ret |-> c.ret, hit |-> c.hit]
                   IN  /\ nlines' = nlines + 1
                       /\ IF c.fault
                          THEN /\ pc' = "fault"
                               /\ calls' = calls \cup {sc.pixel}
                               /\ last' = call
                               /\ event' = Event("calloc failed", line)
                               /\ UNCHANGED <<image, heap, count, leaked, f>>
                          ELSE IF run # 0
                          THEN /\ image' = NoImage
                               /\ heap' = <<>>
                               /\ leaked' = leaked + Cardinality(DOMAIN c.heap)
                               /\ count' = 0
                               /\ calls' = {}
                               /\ last' = NoCall
                               /\ event' = Event("run left over", line)
                               /\ ReturnNull
                          ELSE /\ image' = [c.image EXCEPT
                                              !.pixels = @ \o Repeat(sc.pixel, n)]
                               /\ heap' = c.heap
                               /\ count' = w.count
                               /\ calls' = calls \cup {sc.pixel}
                               /\ last' = call
                               /\ event' = Event("line", line)
                               /\ pc' = IF w.count > 0 THEN "body" ELSE "assign"
                               /\ UNCHANGED <<leaked, f>>
    /\ UNCHANGED <<argv, i, outputs, rgb, visited, clobber>>

\* read_image after its while loop: assign_rgb, and the image is returned.
AssignRgb ==
    /\ pc = "assign"
    /\ heap' = assign_rgb(image, heap)
    /\ pc' = "name"
    /\ event' = Event("assign_rgb", NoLine)
    /\ UNCHANGED <<argv, f, i, nlines, image, count, leaked, outputs, rgb,
                   visited, clobber, calls, last>>

\* main: newname and the fopen of the output file.
OpenOutput ==
    /\ pc = "name"
    /\ \E opened \in BOOLEAN :
       \E nn \in {newname(argv[f], i, <<"p", "n", "g">>)} :
          /\ argv' = [argv EXCEPT ![f] = nn.orig]
          /\ i' = i + 1
          /\ IF opened
             THEN /\ outputs' = Append(outputs, [name |-> nn.new, file |-> f,
                                                 data |-> "empty"])
                  /\ event' = Event("fopen output", NoLine)
                  /\ pc' = "dump"
             ELSE /\ pc' = "free"
                  /\ event' = Event("fopen output failed", NoLine)
                  /\ UNCHANGED outputs
    /\ UNCHANGED <<f, nlines, image, heap, count, leaked, rgb, visited,
                   clobber, calls, last>>

(***************************************************************************)
(* main: dump_png and fclose.  bufok and rowsok are whether the malloc of  *)
(* rgb and the calloc of rows succeed, written whether every fwrite of     *)
(* stdio_write_func does.                                                  *)
(***************************************************************************)
DumpPng ==
    /\ pc = "dump"
    /\ \E d \in dump_png_outcomes(image, heap, last, FrameRandomBits, BOOLEAN) :
       \E bufok \in BOOLEAN, rowsok \in BOOLEAN, written \in BOOLEAN :
          IF ~bufok
          THEN /\ pc' = "free"
               /\ event' = Event("rgb malloc failed", NoLine)
               /\ UNCHANGED <<image, heap, rgb, outputs, calls, last>>
          ELSE /\ image' = d.image
               /\ heap' = d.heap
               /\ rgb' = d.rgb
               /\ calls' = calls \cup {image.pixels[k] : k \in 1..Len(image.pixels)}
               /\ last' = d.last
               /\ IF d.fault
                  THEN /\ pc' = "fault"
                       /\ event' = Event("calloc failed", NoLine)
                       /\ UNCHANGED outputs
                  ELSE IF ~rowsok /\ image.height > 0
                  THEN /\ pc' = "fault"
                       /\ event' = Event("rows calloc failed", NoLine)
                       /\ UNCHANGED outputs
                  ELSE LET w == stdio_write_func(written)
                       IN  /\ pc' = IF w.exit THEN "exit" ELSE "free"
                           /\ event' = Event(IF written THEN "written"
                                                        ELSE "write failed", NoLine)
                           /\ outputs' = [outputs EXCEPT ![Len(outputs)].data = w.data]
    /\ UNCHANGED <<argv, f, i, nlines, count, leaked, visited, clobber>>

\* main: free_image, and back to the while loop's call of read_image.
FreeImage ==
    /\ pc = "free"
    /\ heap' = free_image(image, heap)
    /\ image' = NoImage
    /\ rgb' = <<>>
    /\ count' = 0
    /\ calls' = {}
    /\ last' = NoCall
    /\ event' = Event("free_image", NoLine)
    /\ pc' = "read"
    /\ UNCHANGED <<argv, f, i, nlines, leaked, outputs, visited, clobber>>

Next ==
    \/ OpenInput
    \/ Return
    \/ ReadHeader
    \/ ReadLine
    \/ AssignRgb
    \/ OpenOutput
    \/ DumpPng
    \/ FreeImage

Spec == Init /\ [][Next]_vars

\* The program is one sequential process and every call it makes returns:
\* while a step of main is possible, one is taken.
FairSpec == Spec /\ WF_vars(Next)


(***************************************************************************)
(* Properties of the skip list, under TableSpec.                           *)
(***************************************************************************)
\* The level-0 chain from image->colors[0], as addresses.
Chain0 == Chain(image, heap, 0)

\* The address of the entry of pixel p.
EntryOf(h, p) == CHOOSE a \in DOMAIN h : h[a].pixel = p

\* C1: after any sequence of find_color calls on one image, the level-0
\* chain from image->colors[0] lists the entries in strictly ascending
\* pixel order, holds no pixel twice, holds every allocated entry and has
\* exactly num_colors entries.
C1_ChainSorted ==
    pc \in {"table", "colored"} =>
       /\ \A k \in 1..(Len(Chain0) - 1) :
             heap[Chain0[k]].pixel < heap[Chain0[k + 1]].pixel
       /\ \A j, k \in 1..Len(Chain0) :
             j # k => heap[Chain0[j]].pixel # heap[Chain0[k]].pixel
       /\ {Chain0[k] : k \in 1..Len(Chain0)} = DOMAIN heap
       /\ Len(Chain0) = image.num_colors

\* Three entries, the second one inserted below the first, not all of them
\* of level 1.
C1_Witness ==
    /\ pc = "table"
    /\ Len(Chain0) >= 3
    /\ heap[1].pixel > heap[2].pixel
    /\ \E a \in DOMAIN heap : heap[a].level > 1

\* C2: the set of pixels stored in the table is the set of values
\* find_color was called with, and num_colors is the number of distinct
\* values, whatever the order of the calls and however often a value is
\* repeated.
C2_DistinctCount ==
    pc \in {"table", "colored"} =>
       /\ Pixels(heap) = calls
       /\ {heap[Chain0[k]].pixel : k \in 1..Len(Chain0)} = calls
       /\ image.num_colors = Cardinality(calls)

\* A repeated value, after values that came in descending order.
C2_Witness ==
    /\ pc = "table"
    /\ last.hit
    /\ Cardinality(calls) >= 3
    /\ heap[1].pixel > heap[2].pixel

\* C3: a find_color call with a pixel that already has an entry returns
\* that entry and leaves the image, num_colors and every entry, with its
\* fields and its links, as they were.
C3_LookupUnchanged ==
    [][(pc \in {"table", "colored"} /\ pc' = pc /\ last'.hit) =>
          /\ image' = image
          /\ heap' = heap
          /\ last'.ret \in DOMAIN heap
          /\ heap[last'.ret].pixel = last'.pixel]_vars

\* A lookup of an entry that has its colour, in a table of three.
C3_Witness ==
    /\ pc = "colored"
    /\ last.hit
    /\ last.ret \in DOMAIN heap
    /\ heap[last.ret].hsv # <<>>
    /\ image.num_colors >= 3

(***************************************************************************)
(* Properties of the colour assignment, under TableSpec.                   *)
(***************************************************************************)
\* assign_rgb has run and no entry was inserted since.
Colored == pc = "colored" /\ \A a \in DOMAIN heap : heap[a].hsv # <<>>

\* The zero-based position of pixel p among the pixels of the table, in
\* ascending order.
Rank(h, p) == Cardinality({q \in Pixels(h) : q < p})

HsvIs(e, h, s, v) ==
    /\ e.hsv # <<>>
    /\ FEq(e.hsv[1].h, h) /\ FEq(e.hsv[1].s, s) /\ FEq(e.hsv[1].v, v)

\* C5 as claimed: with n >= 2 entries, index 0 gets hue 0, saturation 0,
\* value 1 and index 1 hue 0, saturation 0, value 0; every index i >= 2
\* gets hue (i-2)/(n-2), saturation 1, value 0.5; a single entry gets
\* hue 0, saturation 0, value 1.
C5_Claimed ==
    Colored =>
       \A a \in DOMAIN heap :
          LET idx == Rank(heap, heap[a].pixel)
              n == Cardinality(DOMAIN heap)
          IN  IF idx < 2
              THEN HsvIs(heap[a], FZero, FZero, IntToFloat(1 - idx))
              ELSE HsvIs(heap[a], FDiv(IntToFloat(idx - 2), IntToFloat(n - 2)),
                         FOne, FHalf)

\* C5 as amended: for every n >= 1, the entry at index i of the ascending
\* walk gets hue i/n (in single precision), saturation 1 and value 0.5;
\* index 0 is therefore (127, 0, 0), not white.
C5_HueSweep ==
    Colored =>
       \A a \in DOMAIN heap :
          LET idx == Rank(heap, heap[a].pixel)
              n == Cardinality(DOMAIN heap)
          IN  /\ HsvIs(heap[a], FDiv(IntToFloat(idx), IntToFloat(n)), FOne, FHalf)
              /\ idx = 0 => <<heap[a].r, heap[a].g, heap[a].b>> = <<127, 0, 0>>

\* Three coloured entries, the first two found in descending order.
C5_Witness ==
    /\ Colored
    /\ Cardinality(DOMAIN heap) >= 3
    /\ heap[1].pixel > heap[2].pixel

\* The pixels of the set S, ascending.
RECURSIVE Ascending(_)
Ascending(S) ==
    IF S = {} THEN <<>>
    ELSE LET m == CHOOSE x \in S : \A y \in S : x <= y
         IN  <<m>> \o Ascending(S \ {m})

Reverse(s) == [k \in 1..Len(s) |-> s[Len(s) + 1 - k]]

\* The table after find_color for each pixel of ps in turn, every entry
\* allocated with the random word bits, and assign_rgb.
RECURSIVE BuildTable(_, _, _, _)
BuildTable(img, h, ps, bits) ==
    IF ps = <<>>
    THEN assign_rgb(img, h)
    ELSE CHOOSE r \in {BuildTable(c.image, c.heap, Tail(ps), bits) :
                          c \in {find_color(img, h, Head(ps), bits, TRUE)}} : TRUE

ColourOf(h, p) == <<h[EntryOf(h, p)].r, h[EntryOf(h, p)].g, h[EntryOf(h, p)].b>>

\* C6: two tables that hold the same set of pixel values give every pixel
\* the same (r, g, b) after assign_rgb, whatever the order in which the
\* pixels were first seen and whatever the levels of their entries: every
\* table reached agrees with the table built from the same pixels in
\* ascending order with entries of level 1, and with the one built in
\* descending order with entries of level MAX_LEVEL.
C6_Deterministic ==
    Colored =>
       \A ps \in {Ascending(Pixels(heap))} :
       \A up \in {BuildTable(xts_image(1, 1, 8), <<>>, ps, 1)} :
       \A down \in {BuildTable(xts_image(1, 1, 8), <<>>, Reverse(ps), 0)} :
       \A p \in Pixels(heap) :
          /\ ColourOf(heap, p) = ColourOf(up, p)
          /\ ColourOf(heap, p) = ColourOf(down, p)

\* Three coloured entries, found in neither ascending nor descending
\* order, with different levels.
C6_Witness ==
    /\ Colored
    /\ Cardinality(DOMAIN heap) >= 3
    /\ heap[1].pixel < heap[2].pixel
    /\ heap[3].pixel < heap[2].pixel
    /\ heap[1].level # heap[2].level

(***************************************************************************)
(* Properties of the program, under Spec.                                  *)
(***************************************************************************)
\* C4 as claimed: when a body line declares a run longer than the number
\* of pixels the frame still needs, read_image truncates the run to that
\* number and completes the frame.
C4_Claimed ==
    [][(pc = "body" /\ event'.line.kind = "run" /\ event'.line.a > count
        /\ event'.what # "calloc failed") =>
          /\ event'.what = "line"
          /\ pc' = "assign"
          /\ image'.pixels = image.pixels \o Repeat(event'.line.b, count)]_vars

\* C4 as amended: the run read_image holds after sscanf is the run the line
\* declares, or 0 in a build where the store of %lx overwrites run.  When it
\* is longer than the number of pixels the frame still needs, read_image
\* prints "run left over", frees the image and returns NULL: the frame has
\* no output and the file is left.  Otherwise the line stores that many
\* pixels and the frame goes on.
C4_RunLeftOver ==
    [][(pc = "body" /\ event'.line.kind = "run"
        /\ event'.what # "calloc failed") =>
          LET run == IF clobber = "run" THEN 0 ELSE event'.line.a
          IN  IF run > count
              THEN /\ event'.what = "run left over"
                   /\ pc' = "open"
                   /\ f' = f + 1
                   /\ image' = NoImage
                   /\ outputs' = outputs
              ELSE /\ event'.what = "line"
                   /\ image'.pixels = image.pixels \o Repeat(event'.line.b, run)
                   /\ count' = count - run]_vars

\* A line with run 3 has ended a frame, which is at most two pixels wide,
\* in the build that leaves run alone.
C4_Witness ==
    /\ clobber = "none"
    /\ pc = "open"
    /\ event.what = "run left over"
    /\ event.line.kind = "run"
    /\ event.line.a = 3

\* C7: when decoding a frame fails (no header where one is due, an
\* unparsable line, or the input ends before width * height pixels are
\* filled), read_image returns NULL without a crash, the frame gets no
\* output file and main leaves the file for the next one, which it tries
\* to open next if there is one; no file is opened twice.
C7_DecodeFailure ==
    [][/\ event'.what \in {"run bad", "run left over"} =>
             /\ pc = "body"
             /\ pc' = "open"
             /\ f' = f + 1
             /\ outputs' = outputs
             /\ image' = NoImage
       /\ event'.what = "no header" =>
             /\ pc = "read"
             /\ pc' = "open"
             /\ f' = f + 1
             /\ outputs' = outputs
       /\ (pc = "open" /\ f <= NumFiles) =>
             /\ visited' = Append(visited, f)
             /\ \A k \in 1..Len(visited) : visited[k] < f
             /\ pc' \in {"open", "read"}
       /\ f' >= f]_vars

\* The second frame of the first file has failed after the first frame
\* was written; a file is left on the command line.
C7_Witness ==
    /\ pc = "open"
    /\ event.what = "run bad"
    /\ f = 2
    /\ Len(outputs) = 1
    /\ outputs[1].data = "png"

AllocationFailures ==
    {"malloc failed", "calloc failed", "rgb malloc failed", "rows calloc failed"}

\* C8 as claimed: any allocation failure ends the process in the step in
\* which it happens.
C8_Claimed ==
    [][event'.what \in AllocationFailures => pc' \in {"exit", "fault"}]_vars

\* C8 as amended: a failed malloc of the image makes read_image return
\* NULL, and main goes on with the next file; a failed malloc of rgb makes
\* dump_png return with nothing written, the output file stays empty and
\* main goes on with free_image and the next frame; a failed calloc of a
\* colour entry or of rows is not checked, the program stores through NULL
\* and does nothing after that.
C8_AllocationFailure ==
    [][/\ event'.what = "malloc failed" =>
             /\ pc = "read"
             /\ pc' = "open"
             /\ f' = f + 1
             /\ outputs' = outputs
       /\ event'.what = "rgb malloc failed" =>
             /\ pc = "dump"
             /\ pc' = "free"
             /\ outputs' = outputs
             /\ outputs[Len(outputs)].data = "empty"
             /\ image' = image
             /\ heap' = heap
       /\ event'.what \in {"calloc failed", "rows calloc failed"} =>
             pc' = "fault"
       /\ pc # "fault"]_vars

\* The malloc of the second frame's image has failed in the first file,
\* whose first frame was written; main is about to open the next file.
C8_Witness ==
    /\ pc = "open"
    /\ event.what = "malloc failed"
    /\ f = 2
    /\ Len(outputs) = 1

\* C9 as claimed: a failure to write a frame's output leaves main in its
\* loop, which goes on with free_image and the next frame.
C9_Claimed ==
    [][event'.what = "write failed" => pc' = "free"]_vars

\* C9 as amended: a write error makes stdio_write_func call exit (1): the
\* process ends in that step with the output file incomplete, and no frame
\* and no file is processed after it.
C9_WriteFailureExits ==
    [][/\ event'.what = "write failed" =>
             /\ pc = "dump"
             /\ pc' = "exit"
             /\ outputs'[Len(outputs')].data = "partial"
             /\ f' = f
             /\ visited' = visited
       /\ pc # "exit"]_vars

\* exit (1) in the first file, with input left to read and a file left on
\* the command line.
C9_Witness ==
    /\ pc = "exit"
    /\ event.what = "write failed"
    /\ f < NumFiles
    /\ nlines < MaxLines

\* The pixels of the image buffer.
Buffer(img) == {img.pixels[k] : k \in 1..Len(img.pixels)}

\* A rendering in which every find_color call found an entry: nothing
\* inserted, no colour read that assign_hsv has not set.
AllHits(d) ==
    /\ ~d.fault
    /\ d.hits = Len(image.pixels)
    /\ d.unset = 0
    /\ d.image = image
    /\ d.heap = heap

\* C10: when a complete frame is rendered, by dump_png or by dump_ppm,
\* every pixel of the buffer was registered while the frame was decoded,
\* so every find_color call finds an entry: no entry is inserted,
\* num_colors and the table stay as they are, and every colour read was
\* set by assign_rgb.  The step of dump_png leaves the image and the
\* entries unchanged.
C10_RenderHits ==
    /\ [](pc = "dump" =>
             /\ Len(image.pixels) = image.width * image.height
             /\ Buffer(image) \subseteq calls
             /\ \A bits \in FrameRandomBits, ok \in BOOLEAN :
                   /\ AllHits(dump_png(image, heap, bits, ok, last))
                   /\ AllHits(dump_ppm(image, heap, bits, ok, last)))
    /\ [][pc = "dump" =>
             /\ image' = image
             /\ heap' = heap
             /\ event'.what # "calloc failed"
             /\ (event'.what # "rgb malloc failed" =>
                    /\ last'.hit
                    /\ Len(rgb') = Len(image.pixels))]_vars

\* A frame of two pixels with two colours was written, from a table that
\* holds a third colour.
C10_Witness ==
    /\ pc = "free"
    /\ event.what = "written"
    /\ Len(rgb) = 2
    /\ rgb[1] # rgb[2]
    /\ image.num_colors = 3

\* C11: an input file that cannot be opened is skipped: main goes on with
\* the next file, and the files are tried in the order of the command
\* line, each once.  An output file that cannot be opened loses its own
\* frame only: the frame counter moves on, the image is freed and main
\* calls read_image again on the same input file.
C11_OpenFailures ==
    [][/\ event'.what = "fopen failed" =>
             /\ pc = "open"
             /\ pc' = "open"
             /\ f' = f + 1
             /\ outputs' = outputs
       /\ (pc = "open" /\ f <= NumFiles) =>
             /\ visited = [k \in 1..(f - 1) |-> k]
             /\ visited' = Append(visited, f)
       /\ event'.what = "fopen output failed" =>
             /\ pc = "name"
             /\ pc' = "free"
             /\ f' = f
             /\ i' = i + 1
             /\ outputs' = outputs
             /\ image' = image
             /\ heap' = heap
       /\ pc = "free" =>
             /\ pc' = "read"
             /\ f' = f
             /\ i' = i
             /\ outputs' = outputs]_vars

\* The second frame of the second file has been written although the
\* output file of its first frame could not be opened; nothing was written
\* for the first file.
C11_Witness ==
    /\ visited = <<1, 2>>
    /\ f = 2
    /\ i = 2
    /\ Len(outputs) = 1
    /\ outputs[1].file = 2
    /\ outputs[1].data = "png"
    /\ event.what = "written"

\* The base name of an input file as named on the command line: the last
\* component of the path, up to its last dot.
BaseName(path) ==
    LET base == SubSeq(path, basename(path), Len(path))
        dot == LastIndexOf(base, ".")
    IN  IF dot = 0 THEN base ELSE SubSeq(base, 1, dot - 1)

\* C12: every frame of an input file is written to the file named by the
\* base name of the input file as given on the command line (directory
\* and last extension removed), "-", the zero-based position of the frame
\* among the frames decoded from that file, and ".png"; the position
\* starts at 0 for each file and moves by one with each frame decoded.
C12_OutputNames ==
    [][/\ event'.what = "fopen" => i' = 0
       /\ event'.what \in {"fopen output", "fopen output failed"} => i' = i + 1
       /\ event'.what \notin {"fopen", "fopen output", "fopen output failed"}
             => i' = i
       /\ event'.what = "fopen output" =>
             /\ Len(outputs') = Len(outputs) + 1
             /\ outputs'[Len(outputs')].file = f
             /\ outputs'[Len(outputs')].name =
                   BaseName(ArgvName(f)) \o <<"-">> \o Digits(i)
                      \o <<".", "p", "n", "g">>]_vars

\* The run-length expansion of a body line: "run,pixel" repeats pixel run
\* times, a bare pixel counts once.
Expansion(line) ==
    IF line.kind = "run" THEN Repeat(line.b, line.a) ELSE Repeat(line.a, 1)

\* C13: every body line that read_image consumes without failing appends
\* its run-length expansion to the pixel buffer, so that the buffer is the
\* expansion of the lines consumed, in line order; when read_image leaves
\* its loop the buffer holds exactly width * height values, and no line is
\* consumed after that.
C13_RunLengthExpansion ==
    /\ [](pc \in {"assign", "name", "dump", "free"} =>
             Len(image.pixels) = image.width * image.height)
    /\ [][/\ event'.what = "line" =>
                /\ pc = "body"
                /\ image'.pixels = image.pixels \o Expansion(event'.line)
          /\ pc \in {"assign", "name", "dump"} =>
                /\ nlines' = nlines
                /\ image'.pixels = image.pixels]_vars

(***************************************************************************)
(* Properties of the colours, under ColorSpec.                             *)
(***************************************************************************)
Rgb(e) == <<e.r, e.g, e.b>>

\* The entry assign_rgb has just coloured differs in (r, g, b) from every
\* entry it coloured before.
FreshColor == \A a \in DOMAIN heap : Rgb(heap'[Len(heap')]) # Rgb(heap[a])

\* C14 as claimed: for every number of entries, no two entries of a table
\* receive the same (r, g, b) from assign_rgb.
C14_Claimed ==
    [][pc = "colors" => FreshColor]_vars

\* C14 as amended: in a table of at most 510 entries no two entries
\* receive the same (r, g, b) from assign_rgb.
C14_DistinctColors ==
    [][(pc = "colors" /\ image.num_colors <= 510) => FreshColor]_vars

\* All the entries of a table of 510 have their colour.
C14_Witness ==
    /\ pc = "colors"
    /\ image.num_colors = 510
    /\ i = 510
    /\ Len(heap) = 510

(***************************************************************************)
(* Properties of assign_hsv, under HsvSpec.                                *)
(***************************************************************************)
\* C15: after assign_hsv with saturation 0 and a value above 0 the entry
\* has r = g = b = floor(v * 255), whatever the hue; after assign_hsv with
\* value 0 it has r = g = b = 0.
C15_Claimed ==
    pc = "hsv" =>
       \A a \in DOMAIN heap : \A c \in {heap[a].hsv[k] : k \in DOMAIN heap[a].hsv} :
          /\ (FEq(c.s, FZero) /\ ~FEq(c.v, FZero)) =>
                Rgb(heap[a]) = <<float_to_uint(c.v), float_to_uint(c.v),
                                 float_to_uint(c.v)>>
          /\ FEq(c.v, FZero) => Rgb(heap[a]) = <<0, 0, 0>>

(***************************************************************************)
(* Properties of the table of a decoded frame, under Spec.                 *)
(***************************************************************************)
\* The values a buffer holds.
Values(pixels) == {pixels[k] : k \in DOMAIN pixels}

\* C16: when read_image has returned a frame, the pixels of the entries of
\* its table are the values its buffer holds, and num_colors is the number
\* of these values, lines with a declared run of 0 included.
C16_TablePixels ==
    pc = "assign" =>
       /\ Pixels(heap) = Values(image.pixels)
       /\ image.num_colors = Cardinality(Values(image.pixels))

\* C17: when a frame is discarded, by free_image after it was written or
\* by read_image on a failure of the decoding, every entry allocated for
\* it is freed: between two frames no entry is allocated, and none was
\* left allocated by a discarded frame.
C17_EntriesFreed ==
    /\ leaked = 0
    /\ pc \in {"open", "read", "done"} => DOMAIN heap = {}

(***************************************************************************)
(* Termination, under FairSpec.                                            *)
(***************************************************************************)
\* The process has ended: main returned, exit (1) was called, or a failed
\* allocation was dereferenced.
Ended == pc \in {"done", "exit", "fault"}

\* The files main has opened or tried to open are 1, 2, ... in order,
\* each once.
VisitedOnce == \A k \in DOMAIN visited : visited[k] = k

\* A call of read_image fails, or consumes a header; a turn of its body
\* loop consumes a line, or fails at the end of the input.
Progress ==
    /\ pc = "read" => \/ event'.what \in {"no header", "malloc failed"}
                      \/ nlines' = nlines + 1 /\ event'.what = "header"
    /\ pc = "body" => \/ nlines' = nlines + 1 /\ event'.line \in Lines
                      \/ event' = Event("run bad", EOF) /\ nlines' = nlines

\* C18: with finitely many files of finitely many lines the process ends;
\* on the way every call of read_image fails or consumes a header, every
\* turn of its body loop consumes a line or fails at the end of the input,
\* lines that declare a run of 0 included, and every file is visited once.
C18_Terminates ==
    /\ <>Ended
    /\ [][Progress]_vars
    /\ [](VisitedOnce /\ (pc = "done" => Len(visited) = NumFiles))

\* main has returned after it visited every file, read every line of the
\* input and wrote a frame, and no failure of the decoding left an entry.
C18_Witness ==
    /\ pc = "done"
    /\ visited = [k \in 1..NumFiles |-> k]
    /\ nlines = MaxLines
    /\ Len(outputs) > 0
    /\ leaked = 0
    /\ event.what = "return"

(***************************************************************************)
(* Properties of the levels of the table, under TableSpec.                 *)
(***************************************************************************)
\* The entries that belong to the chain of level l.
Tall(l) == {a \in DOMAIN heap : heap[a].level > l}

\* C19: after any sequence of find_color calls, for every level l in
\* 0 .. MAX_LEVEL-1 the chain from image->colors[l] holds exactly the
\* entries whose level is greater than l, each once, in strictly ascending
\* order of their pixels; and a search, for whatever pixel, never reads
\* next[l] of an entry whose level is l or less.
C19_LevelChains ==
    pc \in {"table", "colored"} =>
       /\ \A l \in 0..(MAX_LEVEL - 1) : \A ch \in {Chain(image, heap, l)} :
             /\ {ch[k] : k \in 1..Len(ch)} = Tall(l)
             /\ Len(ch) = Cardinality(Tall(l))
             /\ \A k \in 1..(Len(ch) - 1) :
                   heap[ch[k]].pixel < heap[ch[k + 1]].pixel
       /\ \A pixel \in TablePixels : ~find_color_start(image, heap, pixel).oob

\* A table of three entries of three different levels, the lowest entry
\* first in pixel order, after a search that found its entry.
C19_Witness ==
    /\ pc = "table"
    /\ image.num_colors = 3
    /\ {heap[a].level : a \in DOMAIN heap} = {1, 2, MAX_LEVEL}
    /\ heap[Chain0[1]].level = 1
    /\ last.hit

=============================================================================
